---- MODULE Spec2Model ----
(***************************************************************************)
(* Model of the Resights registry tools of OpenManus:                      *)
(*   app/tool/resight_api.py  FetchResightPropertyTableTool, ResightApiTool *)
(*   test_resight_api.py      test_resight_api                              *)
(*   app/config.py            Config (__new__, __init__)                    *)
(* A call is split at its await points: the request is issued, the         *)
(* registry answers, the handler computes its return value.                *)
(***************************************************************************)
EXTENDS Integers, Sequences, FiniteSets, TLC

VARIABLES
    RESIGHT_API_KEY,  \* module constant read by both tools
    pc,               \* position of the call in progress
    tool,             \* which public operation is running
    args,             \* its arguments
    sent,             \* requests issued by the call so far
    response,         \* registry answers received by the call so far
    result,           \* value returned by the call
    RESIGHT_API_BASE_URL,  \* module constant read by both tools
    calls,            \* the execute calls running side by side on one event loop
    config_toml,      \* what config/config.toml holds
    clock,            \* datetime.now(), to the second
    Config_instance,  \* Config._instance
    Config_lock,      \* Config._lock: the thread holding it
    Config_initialized, \* Config._initialized
    workspace_root,   \* Config._config.workspace_root
    thread,           \* each thread's position in Config()
    init_runs,        \* how often the body of __init__ ran to its end or to a return
    first_root        \* workspace_root when the first Config() returned

tool_vars == <<pc, tool, args, sent, response, result>>
calls_vars == <<calls>>
config_vars == <<config_toml, clock, Config_instance, Config_lock, Config_initialized,
                 workspace_root, thread, init_runs, first_root>>
vars == <<RESIGHT_API_KEY, RESIGHT_API_BASE_URL, tool_vars, calls_vars, config_vars>>

(***************************************************************************)
(* Bounds                                                                  *)
(***************************************************************************)
MaxUnits == 2        \* longest units list of a record
MaxBuildings == 2    \* longest buildings list of a record
MaxFields == 2       \* longest output_fields list of a caller
MaxCalls == 2        \* execute calls running side by side
MaxThreads == 2      \* threads constructing Config
MaxConfigCalls == 2  \* Config() calls made by one thread
MaxClock == 2        \* seconds the clock can advance

(***************************************************************************)
(* JSON / Python values                                                    *)
(***************************************************************************)
None == [t |-> "null"]
NaN == [t |-> "nan"]
JStr(s) == [t |-> "str", v |-> s]
JNum(n) == [t |-> "num", v |-> n]
JList(s) == [t |-> "list", v |-> s]
JObj(f) == [t |-> "obj", v |-> f]
EmptyDict == [k \in {} |-> None]

\* Python truth value of a JSON value
Truthy(j) ==
    CASE j.t = "null" -> FALSE
      [] j.t = "str" -> j.v # ""
      [] j.t = "num" -> j.v # 0
      [] j.t = "list" -> Len(j.v) > 0
      [] j.t = "obj" -> DOMAIN j.v # {}
      [] OTHER -> TRUE

\* dict.get(key) with the default dropped
Get_NoDefault(o, key, default) == IF key \in DOMAIN o.v THEN o.v[key] ELSE None

\* dict.get(key, default) on a JSON object
Get(o, key, default) == IF key \in DOMAIN o.v THEN o.v[key] ELSE default

Range(s) == {s[i] : i \in 1..Len(s)}
SeqsUpTo(S, n) == UNION {[1..k -> S] : k \in 0..n}

(***************************************************************************)
(* Constants of resight_api.py                                             *)
(***************************************************************************)
ALL_AVAILABLE_PROCESSED_FIELDS ==
    << "propertyId", "bfe_number", "bbr.units.id", "units.status",
       "bbr.units.enh020_unit_usage", "bbr.units.enh026_area_unit_total",
       "bbr.units.enh027_area_residential", "bbr.units.enh028_area_commercial",
       "bbr.units.enh031_number_rooms", "bbr.buildings.id", "timestamp" >>

DEFAULT_OUTPUT_FIELDS == ALL_AVAILABLE_PROCESSED_FIELDS

rename_units ==
    ("id" :> "bbr.units.id") @@ ("status" :> "units.status") @@
    ("enh020_unit_usage" :> "bbr.units.enh020_unit_usage") @@
    ("enh026_area_unit_total" :> "bbr.units.enh026_area_unit_total") @@
    ("enh027_area_residential" :> "bbr.units.enh027_area_residential") @@
    ("enh028_area_commercial" :> "bbr.units.enh028_area_commercial") @@
    ("enh031_number_rooms" :> "bbr.units.enh031_number_rooms")

rename_buildings == ("id" :> "bbr.buildings.id")

(***************************************************************************)
(* pandas.DataFrame: a set of column labels and a sequence of rows, each   *)
(* row a function from the column labels to cell values.                   *)
(***************************************************************************)
\* pd.DataFrame(list of dicts): columns are the union of the keys, absent cells NaN
DataFrame(data) ==
    LET cols == UNION {DOMAIN data[i].v : i \in 1..Len(data)}
    IN [columns |-> cols,
        rows |-> [i \in 1..Len(data) |->
                    [c \in cols |-> IF c \in DOMAIN data[i].v THEN data[i].v[c] ELSE NaN]]]

\* DataFrame.empty: some axis has length 0
Empty(df) == Len(df.rows) = 0 \/ df.columns = {}

\* DataFrame.rename(columns=mapping)
Rename(df, mapping) ==
    LET R(c) == IF c \in DOMAIN mapping THEN mapping[c] ELSE c
        cols == {R(c) : c \in df.columns}
        Old(n) == CHOOSE c \in df.columns : R(c) = n
    IN [columns |-> cols,
        rows |-> [i \in 1..Len(df.rows) |-> [n \in cols |-> df.rows[i][Old(n)]]]]

\* df[col] = scalar
Assign(df, col, value) ==
    LET cols == df.columns \cup {col}
    IN [columns |-> cols,
        rows |-> [i \in 1..Len(df.rows) |->
                    [c \in cols |-> IF c = col THEN value ELSE df.rows[i][c]]]]

\* DataFrame.drop(col, axis=1)
Drop(df, col) ==
    LET cols == df.columns \ {col}
    IN [columns |-> cols,
        rows |-> [i \in 1..Len(df.rows) |-> [c \in cols |-> df.rows[i][c]]]]

RECURSIVE Flatten(_)
Flatten(ss) == IF Len(ss) = 0 THEN <<>> ELSE Head(ss) \o Flatten(Tail(ss))

\* pd.merge(left, right, on=key): inner join, left order outer, right order
\* inner; a label both sides share (other than the key) gets _x / _y
Merge(left, right, on) ==
    LET overlap == (left.columns \cap right.columns) \ {on}
        LName(c) == IF c \in overlap THEN c \o "_x" ELSE c
        RName(c) == IF c \in overlap THEN c \o "_y" ELSE c
        lcols == {LName(c) : c \in left.columns}
        rcols == {RName(c) : c \in right.columns \ {on}}
        cols == lcols \cup rcols
        Joined(l, r) ==
            [n \in cols |->
                IF n \in lcols
                THEN l[CHOOSE c \in left.columns : LName(c) = n]
                ELSE r[CHOOSE c \in right.columns \ {on} : RName(c) = n]]
        Matches(l) ==
            LET hit == SelectSeq(right.rows, LAMBDA r : r[on] = l[on])
            IN [j \in 1..Len(hit) |-> Joined(l, hit[j])]
    IN [columns |-> cols,
        rows |-> Flatten([i \in 1..Len(left.rows) |-> Matches(left.rows[i])])]

\* the cross join of lines 101-103
CrossJoin(units_df, buildings_df) ==
    Drop(Merge(Assign(units_df, "_crossjoin_key", JNum(1)),
               Assign(buildings_df, "_crossjoin_key", JNum(1)),
               "_crossjoin_key"),
         "_crossjoin_key")

HasDuplicates(s) == \E i, j \in 1..Len(s) : i < j /\ s[i] = s[j]

\* a cell as DataFrame.to_json writes it: NaN and None become null
JsonCell(v) == IF v.t = "nan" THEN None ELSE v

\* df[columns].to_json(orient='records'): one object per row, its keys in
\* the order of the selected columns
ToJsonRecords(df, columns) ==
    [i \in 1..Len(df.rows) |->
        [k \in 1..Len(columns) |-> <<columns[k], JsonCell(df.rows[i][columns[k]])>>]]

(***************************************************************************)
(* Tool results and exceptions                                             *)
(***************************************************************************)
NoOutput == [form |-> "none"]
NoError == [text |-> "none"]
ToolResult(output) == [kind |-> "ToolResult", output |-> output, error |-> NoError]
ToolFailure(error) == [kind |-> "ToolFailure", output |-> NoOutput, error |-> error]
\* an exception that leaves the call
Propagated(e) == [kind |-> "exception", output |-> NoOutput, error |-> [text |-> e.type]]

Return(value) == [raised |-> FALSE, value |-> value]
Raise(type, detail) == [raised |-> TRUE, type |-> type, detail |-> detail]

\* the classes an `except Exception` clause catches
ExceptionSubclasses ==
    {"HTTPStatusError", "ConnectError", "JSONDecodeError", "AttributeError",
     "ValueError", "IndexError", "KeyError", "TypeError"}

(***************************************************************************)
(* HTTP responses: a status code and a body; the body is empty, text that  *)
(* is not JSON, or a JSON value.                                           *)
(***************************************************************************)
EmptyBody == [t |-> "empty"]
TextBody == [t |-> "text"]
HttpResponse(status_code, body) == [t |-> "http", status_code |-> status_code, body |-> body]
TransportError == [t |-> "error", status_code |-> 0, body |-> EmptyBody]

\* raise_for_status raising on 4xx/5xx only
RaisesForStatus_ErrorsOnly(resp) == resp.status_code >= 400

\* Response.raise_for_status raises HTTPStatusError on every status that is
\* not a success (2xx) status
RaisesForStatus(resp) == resp.status_code \notin 200..299
\* Response.json() raises on a body that is not JSON
JsonFails(resp) == resp.body.t \in {"empty", "text"}

(***************************************************************************)
(* FetchResightPropertyTableTool.execute                                   *)
(***************************************************************************)
\* lines 118-132 without the catalog test of line 121
SelectColumns_NoCatalogTest(output_fields, merged_df) ==
    LET default == SelectSeq(DEFAULT_OUTPUT_FIELDS, LAMBDA col : col \in merged_df.columns)
    IN IF output_fields.given /\ Len(output_fields.list) > 0
       THEN LET requested ==
                    SelectSeq(output_fields.list, LAMBDA field : field \in merged_df.columns)
            IN IF Len(requested) = 0 THEN default ELSE requested
       ELSE default

\* lines 118-132 without the fallback of lines 128-130
SelectColumns_NoFallback(output_fields, merged_df) ==
    LET default == SelectSeq(DEFAULT_OUTPUT_FIELDS, LAMBDA col : col \in merged_df.columns)
    IN IF output_fields.given /\ Len(output_fields.list) > 0
       THEN SelectSeq(output_fields.list,
                      LAMBDA field : /\ field \in Range(ALL_AVAILABLE_PROCESSED_FIELDS)
                                     /\ field \in merged_df.columns)
       ELSE default

\* lines 118-132 with no column passing the filters of lines 130 and 132
SelectColumns_EmptyDefault(output_fields, merged_df) ==
    IF output_fields.given /\ Len(output_fields.list) > 0
    THEN SelectSeq(output_fields.list,
                   LAMBDA field : /\ field \in Range(ALL_AVAILABLE_PROCESSED_FIELDS)
                                  /\ field \in merged_df.columns)
    ELSE <<>>

\* lines 118-132 with the caller's list ignored
SelectColumns_IgnoreRequest(output_fields, merged_df) ==
    SelectSeq(DEFAULT_OUTPUT_FIELDS, LAMBDA col : col \in merged_df.columns)

\* lines 118-132: the columns named by the caller, or the default ones
SelectColumns(output_fields, merged_df) ==
    LET default == SelectSeq(DEFAULT_OUTPUT_FIELDS, LAMBDA col : col \in merged_df.columns)
    IN IF output_fields.given /\ Len(output_fields.list) > 0
       THEN LET requested ==
                    SelectSeq(output_fields.list,
                              LAMBDA field : /\ field \in Range(ALL_AVAILABLE_PROCESSED_FIELDS)
                                             /\ field \in merged_df.columns)
            IN IF Len(requested) = 0 THEN default ELSE requested
       ELSE default

\* line 114 with a truth test in place of `is not None`
StampedBfe_TruthTest(bfe_num_from_api, bfe_number) ==
    IF Truthy(bfe_num_from_api) THEN bfe_num_from_api ELSE JNum(bfe_number)

\* lines 113-114: bfe_number prefers the registry's value
StampedBfe(bfe_num_from_api, bfe_number) ==
    IF bfe_num_from_api # None THEN bfe_num_from_api ELSE JNum(bfe_number)

\* lines 99-107: the table before the identity columns are added
MergeFrames(units_df, buildings_df) ==
    IF ~Empty(units_df) /\ ~Empty(buildings_df) THEN CrossJoin(units_df, buildings_df)
    ELSE IF ~Empty(units_df) THEN units_df
    ELSE IF ~Empty(buildings_df) THEN buildings_df
    ELSE DataFrame(<<>>)

\* lines 83-97: the frame of one sub-collection, renamed when not empty
SubFrame(items_data, mapping) ==
    LET df == DataFrame(IF Truthy(items_data) THEN items_data.v ELSE <<>>)
    IN IF ~Empty(df) THEN Rename(df, mapping) ELSE df

\* line 109 with the emptiness test negated
NoBbrData_Negated(merged_df, units_data, buildings_data) ==
    ~Empty(merged_df) /\ ~Truthy(units_data) /\ ~Truthy(buildings_data)

\* line 109 with the two `not` dropped
NoBbrData_DataPresent(merged_df, units_data, buildings_data) ==
    Empty(merged_df) /\ (Truthy(units_data) \/ Truthy(buildings_data))

\* line 109: nothing to tabulate
NoBbrData(merged_df, units_data, buildings_data) ==
    Empty(merged_df) /\ ~Truthy(units_data) /\ ~Truthy(buildings_data)

\* lines 83-147, once units_data and buildings_data are lists or falsy
BuildTable(bfe_number, output_fields, propertyId, bfe_num_from_api, units_data, buildings_data, now) ==
    LET units_df == SubFrame(units_data, rename_units)
        buildings_df == SubFrame(buildings_data, rename_buildings)
        merged_df == MergeFrames(units_df, buildings_df)
    IN IF NoBbrData(merged_df, units_data, buildings_data)
       THEN Return(ToolResult([form |-> "text", text |-> "No BBR units or buildings data found",
                               bfe |-> bfe_number, propertyId |-> propertyId]))
       ELSE
       LET stamped == Assign(Assign(Assign(merged_df, "propertyId", propertyId),
                                    "bfe_number", StampedBfe(bfe_num_from_api, bfe_number)),
                             "timestamp", JStr(now))
           selected == SelectColumns(output_fields, stamped)
           \* lines 134-140; the three columns are already in the frame
           columns_to_select ==
               IF Len(selected) = 0 /\ ~Empty(stamped)
               THEN SelectSeq(<<"propertyId", "bfe_number", "timestamp">>,
                              LAMBDA col : col \in stamped.columns)
               ELSE selected
       IN IF Len(columns_to_select) = 0 /\ Empty(stamped)
          THEN Return(ToolResult([form |-> "text", text |-> "No data could be processed or selected",
                                  bfe |-> bfe_number, propertyId |-> propertyId]))
          ELSE IF HasDuplicates(columns_to_select)
          THEN Raise("ValueError", "DataFrame columns must be unique for orient='records'")
          ELSE Return(ToolResult([form |-> "json",
                                  records |-> ToJsonRecords(stamped, columns_to_select)]))

\* lines 69-147: the body of the try block
FetchTry(bfe_number, output_fields, resp, now) ==
    IF resp.t = "error" THEN Raise("ConnectError", "transport")
    ELSE IF RaisesForStatus(resp) THEN Raise("HTTPStatusError", "status")
    ELSE IF JsonFails(resp) THEN Raise("JSONDecodeError", "body")
    ELSE
    LET data == resp.body IN
    IF data.t # "obj" THEN Raise("AttributeError", "data.get")
    ELSE
    LET propertyId == Get(data, "id", None)
        bfe_num_from_api == Get(data, "bfe_number", None)
        bbr == Get(data, "bbr", JObj(EmptyDict))
    IN
    IF bbr.t # "obj" THEN Raise("AttributeError", "bbr.get")
    ELSE
    LET units_data == Get(bbr, "units", JList(<<>>))
        buildings_data == Get(bbr, "buildings", JList(<<>>))
    IN
    IF Truthy(units_data) /\ units_data.t # "list" THEN Raise("ValueError", "units")
    ELSE IF Truthy(buildings_data) /\ buildings_data.t # "list" THEN Raise("ValueError", "buildings")
    ELSE BuildTable(bfe_number, output_fields, propertyId, bfe_num_from_api,
                    units_data, buildings_data, now)

\* lines 149-152 alone, without the `except Exception` clause
FetchExcept_HttpOnly(e, bfe_number, resp) ==
    IF e.type = "HTTPStatusError"
    THEN ToolFailure([text |-> "Resight API HTTP error for BFE", bfe |-> bfe_number,
                      status_code |-> resp.status_code, body |-> resp.body])
    ELSE Propagated(e)

\* lines 149-152 with a failure of its own for 401 and 403
\* one message for every exception
FetchExcept_OneMessage(e, bfe_number, resp) ==
    IF e.type \in ExceptionSubclasses
    THEN ToolFailure([text |-> "Resight API HTTP error for BFE", bfe |-> bfe_number,
                      detail |-> e.type])
    ELSE Propagated(e)

FetchExcept_Unauthorized(e, bfe_number, resp) ==
    IF e.type = "HTTPStatusError"
    THEN ToolFailure([text |-> IF resp.status_code \in {401, 403}
                               THEN "Unauthorized" ELSE "Resight API HTTP error for BFE",
                      bfe |-> bfe_number,
                      status_code |-> resp.status_code, body |-> resp.body])
    ELSE ToolFailure([text |-> "An unexpected error occurred while fetching property data for BFE",
                      bfe |-> bfe_number, detail |-> e.type])

\* lines 149-156: the except clauses
FetchExcept(e, bfe_number, resp) ==
    IF e.type = "HTTPStatusError"
    THEN ToolFailure([text |-> "Resight API HTTP error for BFE", bfe |-> bfe_number,
                      status_code |-> resp.status_code, body |-> resp.body])
    ELSE IF e.type \in ExceptionSubclasses
    THEN ToolFailure([text |-> "An unexpected error occurred while fetching property data for BFE",
                      bfe |-> bfe_number, detail |-> e.type])
    ELSE Propagated(e)

\* lines 68-156: what execute returns once the registry has answered
FetchReturn(bfe_number, output_fields, resp, now) ==
    LET r == FetchTry(bfe_number, output_fields, resp, now)
    IN IF r.raised THEN FetchExcept(r, bfe_number, resp) ELSE r.value

\* line 62 with `is None` in place of the truth test
FetchConfigured_NoneOnly(key) == key # None

\* line 62: the key check made before any request
FetchConfigured(key) == Truthy(key)
FetchNotConfigured ==
    ToolFailure([text |-> "Resight API key is not configured. Set the RESIGHT_API_KEY environment variable."])

(***************************************************************************)
(* ResightApiTool.execute                                                  *)
(***************************************************************************)
\* lines 199-206 with the body parsed before the 204 test
GatewayTry_ParseFirst(resp) ==
    IF resp.t = "error" THEN Raise("ConnectError", "transport")
    ELSE IF RaisesForStatus(resp) THEN Raise("HTTPStatusError", "status")
    ELSE IF JsonFails(resp) THEN Raise("JSONDecodeError", "body")
    ELSE IF resp.status_code = 204
    THEN Return(ToolResult([form |-> "marker", status |-> "success",
                            message |-> "Operation successful, no content returned."]))
    ELSE Return(ToolResult([form |-> "payload", value |-> resp.body]))

\* lines 199-206: the body of the try block
GatewayTry(resp) ==
    IF resp.t = "error" THEN Raise("ConnectError", "transport")
    ELSE IF RaisesForStatus(resp) THEN Raise("HTTPStatusError", "status")
    ELSE IF resp.status_code = 204
    THEN Return(ToolResult([form |-> "marker", status |-> "success",
                            message |-> "Operation successful, no content returned."]))
    ELSE IF JsonFails(resp) THEN Raise("JSONDecodeError", "body")
    ELSE Return(ToolResult([form |-> "payload", value |-> resp.body]))

\* lines 207-210: the except clauses
GatewayExcept(e, resp) ==
    IF e.type = "HTTPStatusError"
    THEN ToolFailure([text |-> "Resight API HTTP error",
                      status_code |-> resp.status_code, body |-> resp.body])
    ELSE IF e.type \in ExceptionSubclasses
    THEN ToolFailure([text |-> "An unexpected error occurred", detail |-> e.type])
    ELSE Propagated(e)

GatewayReturn(resp) ==
    LET r == GatewayTry(resp)
    IN IF r.raised THEN GatewayExcept(r, resp) ELSE r.value

GatewayNotConfigured == ToolFailure([text |-> "Resight API key is not configured."])

(***************************************************************************)
(* test_resight_api                                                        *)
(***************************************************************************)
ProbeDict(status, message, details, now) ==
    [kind |-> "dict",
     output |-> [form |-> "dict", status |-> status, message |-> message,
                 details |-> details, timestamp |-> now],
     error |-> NoError]

\* `response.json() if response.text else {...}` of lines 30 and 59
ProbeDetails(resp) ==
    IF resp.body.t = "empty" THEN Return(JObj("error" :> JStr("No error details available")))
    ELSE IF JsonFails(resp) THEN Raise("JSONDecodeError", "body")
    ELSE Return(resp.body)

\* line 35: property_data.get('data', [{}])[0].get('id')
\* line 35 trying the keys data, results, items and taking the first
\* non-empty list
ProbePropertyId_TryWrappers(property_data) ==
    IF property_data.t # "obj" THEN Raise("AttributeError", "property_data.get")
    ELSE
    LET NonEmptyList(w) == /\ w \in DOMAIN property_data.v
                           /\ property_data.v[w].t = "list"
                           /\ Len(property_data.v[w].v) > 0
        found == SelectSeq(<<"data", "results", "items">>, NonEmptyList)
    IN IF found = <<>> THEN Return(None)
       ELSE IF property_data.v[found[1]].v[1].t # "obj" THEN Raise("AttributeError", "get")
       ELSE Return(Get(property_data.v[found[1]].v[1], "id", None))

ProbePropertyId(property_data) ==
    IF property_data.t # "obj" THEN Raise("AttributeError", "property_data.get")
    ELSE
    LET data == Get(property_data, "data", JList(<<JObj(EmptyDict)>>))
    IN IF data.t = "null" THEN Raise("TypeError", "subscript")
       ELSE IF data.t = "obj" THEN Raise("KeyError", "0")
       ELSE IF data.t # "list" \/ Len(data.v) = 0 THEN Raise("IndexError", "0")
       ELSE IF data.v[1].t # "obj" THEN Raise("AttributeError", "get")
       ELSE Return(Get(data.v[1], "id", None))

\* lines 66-72: the except clause
ProbeExcept(e, now) ==
    IF e.type \in ExceptionSubclasses
    THEN ProbeDict("error", <<"API test failed with exception">>, JStr(e.type), now)
    ELSE Propagated(e)

\* lines 25-43: after the answer to the property search; either a returned
\* dict or the id to ask valuations for
ProbeAfterSearch(resp, now) ==
    IF resp.t = "error" THEN [next |-> "return", value |-> ProbeExcept(Raise("ConnectError", "transport"), now)]
    ELSE IF resp.status_code # 200
    THEN LET d == ProbeDetails(resp)
         IN [next |-> "return",
             value |-> IF d.raised THEN ProbeExcept(d, now)
                       ELSE ProbeDict("error", <<"Failed to get property ID", resp.status_code>>,
                                      d.value, now)]
    ELSE IF JsonFails(resp)
    THEN [next |-> "return", value |-> ProbeExcept(Raise("JSONDecodeError", "body"), now)]
    ELSE
    LET property_id == ProbePropertyId(resp.body)
    IN IF property_id.raised THEN [next |-> "return", value |-> ProbeExcept(property_id, now)]
       ELSE IF ~Truthy(property_id.value)
       THEN [next |-> "return",
             value |-> ProbeDict("error", <<"Could not find property ID in response">>,
                                 resp.body, now)]
       ELSE [next |-> "valuations", value |-> property_id.value]

\* lines 47-65: after the answer to the valuations request
ProbeAfterValuations(property_data, resp, now) ==
    IF resp.t = "error" THEN ProbeExcept(Raise("ConnectError", "transport"), now)
    ELSE IF resp.status_code = 200
    THEN IF JsonFails(resp) THEN ProbeExcept(Raise("JSONDecodeError", "body"), now)
         ELSE [kind |-> "dict",
               output |-> [form |-> "dict", status |-> "success",
                           message |-> <<"Successfully fetched valuation history">>,
                           property_data |-> property_data,
                           valuation_data |-> resp.body, timestamp |-> now],
               error |-> NoError]
    ELSE LET d == ProbeDetails(resp)
         IN IF d.raised THEN ProbeExcept(d, now)
            ELSE ProbeDict("error", <<"Failed to get valuation history", resp.status_code>>,
                           d.value, now)

(***************************************************************************)
(* Inputs: what callers pass and what the registry may answer              *)
(***************************************************************************)
Absent == [t |-> "absent"]
\* a key of a JSON object, left out when its value is Absent
Field(key, value) == IF value.t = "absent" THEN EmptyDict ELSE key :> value

UnitEntries ==
    { JObj(EmptyDict),
      JObj(("id" :> JStr("u1")) @@ ("status" :> JStr("ok"))),
      JObj(("id" :> JStr("u2")) @@ ("extra" :> JStr("x"))) }

BuildingEntries ==
    { JObj("id" :> JStr("b1")),
      JObj(("id" :> JStr("b2")) @@ ("status" :> JStr("built")) @@ ("extra" :> JStr("y"))) }

\* a sub-collection key: absent, null, not a list, or a list of entries
SubCollections(entries, n) ==
    {Absent, None, JStr("n/a")} \cup {JList(s) : s \in SeqsUpTo(entries, n)}

BbrValues ==
    {Absent, None, JStr("n/a"), JList(<<>>)} \cup
    { JObj(Field("units", u) @@ Field("buildings", b)) :
        u \in SubCollections(UnitEntries, MaxUnits),
        b \in SubCollections(BuildingEntries, MaxBuildings) }

\* id and bfe_number of a record, as a pair
RecordHeads ==
    { <<JStr("abc-123"), Absent>>, <<JStr("abc-123"), JNum(0)>>,
      <<JStr("abc-123"), JNum(777)>>, <<Absent, None>> }

PropertyRecords ==
    { JObj(Field("id", h[1]) @@ Field("bfe_number", h[2]) @@ Field("bbr", b)) :
        h \in RecordHeads, b \in BbrValues }

\* the statuses that are not success statuses
ErrorStatuses == {302, 401, 403, 404, 500}

FetchResponses ==
    {TransportError}
    \cup {HttpResponse(200, b) : b \in {EmptyBody, TextBody, JList(<<>>)} \cup PropertyRecords}
    \cup {HttpResponse(204, EmptyBody)}
    \cup {HttpResponse(st, b) : st \in ErrorStatuses, b \in {EmptyBody, TextBody}}

BfeNumbers == {6022110}

\* names a caller may ask for: catalog names, and a raw name that can be a
\* column of the frame without being in the catalog
RequestedNames == {"propertyId", "bbr.units.id", "status"}

OutputFields ==
    {[given |-> FALSE, list |-> <<>>]}
    \cup {[given |-> TRUE, list |-> s] : s \in SeqsUpTo(RequestedNames, MaxFields)}

Times == {"2026-01-01T10:00:00", "2026-01-01T10:00:01"}

ApiKeys == {None, JStr(""), JStr("secret")}

GatewayArgs ==
    [endpoint_path : {"/persons/search", "company/12345678"}, method : {"GET", "POST"}]

GatewayResponses ==
    {TransportError}
    \cup {HttpResponse(st, b) : st \in {200, 201},
                               b \in {EmptyBody, TextBody, JList(<<>>), JObj("cvr" :> JStr("12345678"))}}
    \cup {HttpResponse(204, EmptyBody)}
    \cup {HttpResponse(st, b) : st \in ErrorStatuses, b \in {EmptyBody, TextBody}}

SearchMatches ==
    { JList(<<>>), JList(<<JObj(EmptyDict)>>), JList(<<JObj("id" :> JStr("abc-123"))>>),
      JList(<<JObj("id" :> JStr("abc-123")), JObj("id" :> JStr("def-456"))>>),
      JList(<<JStr("abc-123")>>), None, JObj("id" :> JStr("abc-123")) }

SearchBodies ==
    {EmptyBody, TextBody, JList(<<>>), JObj(EmptyDict)}
    \cup {JObj(w :> m) : w \in {"data", "results", "items"}, m \in SearchMatches}

ProbeSearchResponses ==
    {TransportError}
    \cup {HttpResponse(200, b) : b \in SearchBodies}
    \cup {HttpResponse(st, b) : st \in ErrorStatuses, b \in {EmptyBody, TextBody, JObj("detail" :> JStr("denied"))}}

ProbeValuationResponses ==
    {TransportError}
    \cup {HttpResponse(200, b) : b \in {EmptyBody, TextBody, JList(<<JObj("value" :> JNum(100))>>)}}
    \cup {HttpResponse(st, b) : st \in ErrorStatuses, b \in {EmptyBody, TextBody, JObj("detail" :> JStr("denied"))}}

(***************************************************************************)
(* The state machine                                                       *)
(***************************************************************************)
NoArgs == [none |-> TRUE]
NoResult == [kind |-> "none", output |-> NoOutput, error |-> NoError]

\* line 11: the default of the base URL
DefaultBaseUrl == "https://api.resights.dk/api/v2"

\* no execute call has begun
Calls == 1..MaxCalls
IdleCall ==
    [pc |-> "idle", tool |-> "none", args |-> NoArgs, sent |-> <<>>, response |-> <<>>,
     result |-> NoResult, overlapped |-> FALSE]
CallsIdle == calls = [i \in Calls |-> IdleCall]

\* config.py lines 228-230: the class attributes before any Config() call
Threads == 1..MaxThreads
NoRoot == <<"unset">>
IdleThread == [pc |-> "idle", n |-> 0, got |-> 0]
ConfigFresh(toml) ==
    /\ config_toml = toml
    /\ clock = 0
    /\ Config_instance = 0
    /\ Config_lock = 0
    /\ Config_initialized = FALSE
    /\ workspace_root = NoRoot
    /\ thread = [t \in Threads |-> IdleThread]
    /\ init_runs = 0
    /\ first_root = NoRoot

\* no tool call is in progress
ToolsIdle ==
    /\ pc = "idle"
    /\ tool = "none"
    /\ args = NoArgs
    /\ sent = <<>>
    /\ response = <<>>
    /\ result = NoResult

Init ==
    /\ RESIGHT_API_KEY \in ApiKeys
    /\ RESIGHT_API_BASE_URL = DefaultBaseUrl
    /\ ToolsIdle
    /\ CallsIdle
    /\ ConfigFresh([valid |-> TRUE, input_dir |-> "none"])

\* FetchResightPropertyTableTool.execute up to `await client.get`
FetchStart(bfe_number, output_fields) ==
    /\ pc = "idle"
    /\ tool' = "fetch"
    /\ args' = [bfe_number |-> bfe_number, output_fields |-> output_fields]
    /\ response' = <<>>
    /\ IF FetchConfigured(RESIGHT_API_KEY)
       THEN /\ sent' = <<[method |-> "GET", path |-> <<"properties", bfe_number>>]>>
            /\ pc' = "awaiting"
            /\ result' = NoResult
       ELSE /\ sent' = <<>>
            /\ pc' = "done"
            /\ result' = FetchNotConfigured
    /\ UNCHANGED <<RESIGHT_API_KEY, RESIGHT_API_BASE_URL, calls_vars, config_vars>>

\* lines 68-156 with the request issued again after a failed one
FetchRespond_Retry(resp, now) ==
    /\ pc = "awaiting"
    /\ tool = "fetch"
    /\ IF (resp.t = "error" \/ RaisesForStatus(resp)) /\ Len(sent) < 2
       THEN /\ sent' = Append(sent, sent[1])
            /\ UNCHANGED <<response, result, pc>>
       ELSE /\ response' = <<resp>>
            /\ result' = FetchReturn(args.bfe_number, args.output_fields, resp, now)
            /\ pc' = "done"
            /\ sent' = sent
    /\ UNCHANGED <<RESIGHT_API_BASE_URL, calls_vars, config_vars>>
    /\ UNCHANGED <<RESIGHT_API_KEY, tool, args>>

\* FetchResightPropertyTableTool.execute from the answer to its return
FetchRespond(resp, now) ==
    /\ pc = "awaiting"
    /\ tool = "fetch"
    /\ response' = <<resp>>
    /\ result' = FetchReturn(args.bfe_number, args.output_fields, resp, now)
    /\ pc' = "done"
    /\ UNCHANGED <<RESIGHT_API_BASE_URL, calls_vars, config_vars>>
    /\ UNCHANGED <<RESIGHT_API_KEY, tool, args, sent>>

\* ResightApiTool.execute up to `await client.request`
GatewayStart(a) ==
    /\ pc = "idle"
    /\ tool' = "gateway"
    /\ args' = a
    /\ response' = <<>>
    /\ IF Truthy(RESIGHT_API_KEY)
       THEN /\ sent' = <<[method |-> a.method, path |-> <<a.endpoint_path>>]>>
            /\ pc' = "awaiting"
            /\ result' = NoResult
       ELSE /\ sent' = <<>>
            /\ pc' = "done"
            /\ result' = GatewayNotConfigured
    /\ UNCHANGED <<RESIGHT_API_KEY, RESIGHT_API_BASE_URL, calls_vars, config_vars>>

\* ResightApiTool.execute from the answer to its return
GatewayRespond(resp) ==
    /\ pc = "awaiting"
    /\ tool = "gateway"
    /\ response' = <<resp>>
    /\ result' = GatewayReturn(resp)
    /\ pc' = "done"
    /\ UNCHANGED <<RESIGHT_API_BASE_URL, calls_vars, config_vars>>
    /\ UNCHANGED <<RESIGHT_API_KEY, tool, args, sent>>

\* test_resight_api up to the property search request
ProbeStart(api_key) ==
    /\ pc = "idle"
    /\ tool' = "probe"
    /\ args' = [api_key |-> api_key, bfe_number |-> 100407981]
    /\ response' = <<>>
    /\ sent' = <<[method |-> "GET", path |-> <<"properties?bfe_number=", 100407981>>]>>
    /\ pc' = "awaiting"
    /\ result' = NoResult
    /\ UNCHANGED <<RESIGHT_API_KEY, RESIGHT_API_BASE_URL, calls_vars, config_vars>>

\* test_resight_api from the search answer to a return or to the valuations request
ProbeSearchRespond(resp, now) ==
    /\ pc = "awaiting"
    /\ tool = "probe"
    /\ response' = <<resp>>
    /\ LET step == ProbeAfterSearch(resp, now)
       IN IF step.next = "return"
          THEN /\ result' = step.value
               /\ pc' = "done"
               /\ sent' = sent
          ELSE /\ result' = NoResult
               /\ pc' = "awaiting_valuations"
               /\ sent' = Append(sent, [method |-> "GET",
                                        path |-> <<"properties", step.value, "valuations">>])
    /\ UNCHANGED <<RESIGHT_API_BASE_URL, calls_vars, config_vars>>
    /\ UNCHANGED <<RESIGHT_API_KEY, tool, args>>

\* test_resight_api from the valuations answer to its return
ProbeValuationsRespond(resp, now) ==
    /\ pc = "awaiting_valuations"
    /\ tool = "probe"
    /\ response' = Append(response, resp)
    /\ result' = ProbeAfterValuations(response[1].body, resp, now)
    /\ pc' = "done"
    /\ UNCHANGED <<RESIGHT_API_BASE_URL, calls_vars, config_vars>>
    /\ UNCHANGED <<RESIGHT_API_KEY, tool, args, sent>>

\* the caller takes the returned value; the next call may begin
Finish ==
    /\ pc = "done"
    /\ pc' = "idle"
    /\ tool' = "none"
    /\ args' = NoArgs
    /\ sent' = <<>>
    /\ response' = <<>>
    /\ result' = NoResult
    /\ UNCHANGED <<RESIGHT_API_KEY, RESIGHT_API_BASE_URL, calls_vars, config_vars>>

Next ==
    \/ \E b \in BfeNumbers, f \in OutputFields : FetchStart(b, f)
    \/ \E r \in FetchResponses, now \in Times : FetchRespond(r, now)
    \/ \E a \in GatewayArgs : GatewayStart(a)
    \/ \E r \in GatewayResponses : GatewayRespond(r)
    \/ \E k \in {"", "secret"} : ProbeStart(k)
    \/ \E r \in ProbeSearchResponses, now \in Times : ProbeSearchRespond(r, now)
    \/ \E r \in ProbeValuationResponses, now \in Times : ProbeValuationsRespond(r, now)
    \/ Finish

Spec == Init /\ [][Next]_vars

(***************************************************************************)
(* Concurrent execute calls: coroutines of one event loop, which switch    *)
(* at `await client.get` / `await client.request` only                     *)
(***************************************************************************)
CallOutputFields ==
    {[given |-> FALSE, list |-> <<>>], [given |-> TRUE, list |-> <<"bbr.units.id">>]}

CallRecord ==
    JObj(Field("id", JStr("abc-123")) @@ Field("bfe_number", JNum(777))
         @@ Field("bbr", JObj(Field("units", JList(<<JObj("id" :> JStr("u1"))>>))
                              @@ Field("buildings", JList(<<JObj("id" :> JStr("b1"))>>)))))

CallFetchResponses ==
    {TransportError, HttpResponse(500, TextBody), HttpResponse(200, CallRecord)}

CallGatewayArgs == {[endpoint_path |-> "/persons/search", method |-> "GET"]}

CallGatewayResponses ==
    {HttpResponse(204, EmptyBody), HttpResponse(200, JObj("cvr" :> JStr("12345678"))),
     HttpResponse(401, TextBody)}

\* another call is between its request and its answer
OtherAwaiting(i) == \E j \in Calls \ {i} : calls[j].pc = "awaiting"

\* lines 61-71 of call i
CallFetchStart(i, bfe_number, output_fields) ==
    /\ calls[i].pc = "idle"
    /\ calls' = [calls EXCEPT ![i] =
           IF FetchConfigured(RESIGHT_API_KEY)
           THEN [IdleCall EXCEPT
                    !.pc = "awaiting", !.tool = "fetch",
                    !.args = [bfe_number |-> bfe_number, output_fields |-> output_fields],
                    !.sent = <<[method |-> "GET", base |-> RESIGHT_API_BASE_URL,
                                path |-> <<"properties", bfe_number>>,
                                authorization |-> RESIGHT_API_KEY]>>]
           ELSE [IdleCall EXCEPT
                    !.pc = "done", !.tool = "fetch",
                    !.args = [bfe_number |-> bfe_number, output_fields |-> output_fields],
                    !.result = FetchNotConfigured]]
    /\ UNCHANGED <<RESIGHT_API_KEY, RESIGHT_API_BASE_URL, tool_vars, config_vars>>

\* lines 71-156 of call i, working on the arguments of a call that began
\* later (arguments kept on the shared tool object)
CallFetchRespond_SharedArgs(i, resp, now) ==
    /\ calls[i].pc = "awaiting"
    /\ calls[i].tool = "fetch"
    /\ LET Later(j) == j # i /\ calls[j].pc = "awaiting" /\ calls[j].tool = "fetch"
           a == IF \E j \in Calls : Later(j)
                THEN calls[CHOOSE j \in Calls : Later(j)].args
                ELSE calls[i].args
       IN calls' = [calls EXCEPT ![i].pc = "done", ![i].response = <<resp>>,
                                 ![i].overlapped = OtherAwaiting(i),
                                 ![i].result = FetchReturn(a.bfe_number, a.output_fields, resp, now)]
    /\ UNCHANGED <<RESIGHT_API_KEY, RESIGHT_API_BASE_URL, tool_vars, config_vars>>

\* lines 71-156 of call i: the answer arrives and the call runs to its
\* return without another await
CallFetchRespond(i, resp, now) ==
    /\ calls[i].pc = "awaiting"
    /\ calls[i].tool = "fetch"
    /\ calls' = [calls EXCEPT
           ![i].pc = "done", ![i].response = <<resp>>,
           ![i].overlapped = OtherAwaiting(i),
           ![i].result = FetchReturn(calls[i].args.bfe_number, calls[i].args.output_fields,
                                     resp, now)]
    /\ UNCHANGED <<RESIGHT_API_KEY, RESIGHT_API_BASE_URL, tool_vars, config_vars>>

\* lines 191-200 of call i
CallGatewayStart(i, a) ==
    /\ calls[i].pc = "idle"
    /\ calls' = [calls EXCEPT ![i] =
           IF Truthy(RESIGHT_API_KEY)
           THEN [IdleCall EXCEPT
                    !.pc = "awaiting", !.tool = "gateway", !.args = a,
                    !.sent = <<[method |-> a.method, base |-> RESIGHT_API_BASE_URL,
                                path |-> <<a.endpoint_path>>,
                                authorization |-> RESIGHT_API_KEY]>>]
           ELSE [IdleCall EXCEPT
                    !.pc = "done", !.tool = "gateway", !.args = a,
                    !.result = GatewayNotConfigured]]
    /\ UNCHANGED <<RESIGHT_API_KEY, RESIGHT_API_BASE_URL, tool_vars, config_vars>>

\* lines 200-210 of call i
CallGatewayRespond(i, resp) ==
    /\ calls[i].pc = "awaiting"
    /\ calls[i].tool = "gateway"
    /\ calls' = [calls EXCEPT ![i].pc = "done", ![i].response = <<resp>>,
                              ![i].overlapped = OtherAwaiting(i),
                              ![i].result = GatewayReturn(resp)]
    /\ UNCHANGED <<RESIGHT_API_KEY, RESIGHT_API_BASE_URL, tool_vars, config_vars>>

\* the caller of call i takes the returned value
CallFinish(i) ==
    /\ calls[i].pc = "done"
    /\ calls' = [calls EXCEPT ![i] = IdleCall]
    /\ UNCHANGED <<RESIGHT_API_KEY, RESIGHT_API_BASE_URL, tool_vars, config_vars>>

CallsInit ==
    /\ RESIGHT_API_KEY \in ApiKeys
    /\ RESIGHT_API_BASE_URL = DefaultBaseUrl
    /\ ToolsIdle
    /\ CallsIdle
    /\ ConfigFresh([valid |-> TRUE, input_dir |-> "none"])

CallsNext ==
    \/ \E i \in Calls, b \in BfeNumbers, f \in CallOutputFields : CallFetchStart(i, b, f)
    \/ \E i \in Calls, r \in CallFetchResponses, now \in Times : CallFetchRespond(i, r, now)
    \/ \E i \in Calls, a \in CallGatewayArgs : CallGatewayStart(i, a)
    \/ \E i \in Calls, r \in CallGatewayResponses : CallGatewayRespond(i, r)
    \/ \E i \in Calls : CallFinish(i)

CallsSpec == CallsInit /\ [][CallsNext]_vars

(***************************************************************************)
(* Config(): app/config.py lines 227-279, called from several threads       *)
(***************************************************************************)
\* config.toml: whether _load_initial_config accepts it, and what its
\* input_dir names
ConfigTomls ==
    {[valid |-> TRUE, input_dir |-> d] : d \in {"none", "dir", "not_a_dir"}}
    \cup {[valid |-> FALSE, input_dir |-> "none"]}

\* the workspace_root of config.toml, and the run directory under it
BaseRoot == <<"workspace">>
RunRoot(ts) == <<"workspace", "runs", ts>>

\* Config() returns to thread t
Returned(t, root) ==
    /\ thread' = [thread EXCEPT ![t].pc = "returned", ![t].got = Config_instance]
    /\ first_root' = IF first_root = NoRoot THEN root ELSE first_root

\* a thread calls Config()
ConfigCall(t) ==
    /\ thread[t].pc \in {"idle", "returned", "raised"}
    /\ thread[t].n < MaxConfigCalls
    /\ thread' = [thread EXCEPT ![t].pc = "new_check", ![t].n = @ + 1]
    /\ UNCHANGED <<config_toml, clock, Config_instance, Config_lock, Config_initialized,
                   workspace_root, init_runs, first_root>>
    /\ UNCHANGED <<RESIGHT_API_KEY, RESIGHT_API_BASE_URL, tool_vars, calls_vars>>

\* line 233: the test made without the lock
NewCheck(t) ==
    /\ thread[t].pc = "new_check"
    /\ thread' = [thread EXCEPT ![t].pc = IF Config_instance = 0 THEN "new_lock"
                                          ELSE "init_check"]
    /\ UNCHANGED <<config_toml, clock, Config_instance, Config_lock, Config_initialized,
                   workspace_root, init_runs, first_root>>
    /\ UNCHANGED <<RESIGHT_API_KEY, RESIGHT_API_BASE_URL, tool_vars, calls_vars>>

\* line 234: `with cls._lock`
NewAcquire(t) ==
    /\ thread[t].pc = "new_lock"
    /\ Config_lock = 0
    /\ Config_lock' = t
    /\ thread' = [thread EXCEPT ![t].pc = "new_locked"]
    /\ UNCHANGED <<config_toml, clock, Config_instance, Config_initialized,
                   workspace_root, init_runs, first_root>>
    /\ UNCHANGED <<RESIGHT_API_KEY, RESIGHT_API_BASE_URL, tool_vars, calls_vars>>

\* lines 235-237: the second test, the creation and the release
NewCreate(t) ==
    /\ thread[t].pc = "new_locked"
    /\ Config_instance' = IF Config_instance = 0 THEN Config_instance + 1 ELSE Config_instance
    /\ Config_lock' = 0
    /\ thread' = [thread EXCEPT ![t].pc = "init_check"]
    /\ UNCHANGED <<config_toml, clock, Config_initialized, workspace_root, init_runs,
                   first_root>>
    /\ UNCHANGED <<RESIGHT_API_KEY, RESIGHT_API_BASE_URL, tool_vars, calls_vars>>

\* line 240: the test made without the lock
InitCheck(t) ==
    /\ thread[t].pc = "init_check"
    /\ IF Config_initialized
       THEN Returned(t, workspace_root)
       ELSE /\ thread' = [thread EXCEPT ![t].pc = "init_lock"]
            /\ UNCHANGED first_root
    /\ UNCHANGED <<config_toml, clock, Config_instance, Config_lock, Config_initialized,
                   workspace_root, init_runs>>
    /\ UNCHANGED <<RESIGHT_API_KEY, RESIGHT_API_BASE_URL, tool_vars, calls_vars>>

\* line 241: `with self._lock`
InitAcquire(t) ==
    /\ thread[t].pc = "init_lock"
    /\ Config_lock = 0
    /\ Config_lock' = t
    /\ thread' = [thread EXCEPT ![t].pc = "init_locked"]
    /\ UNCHANGED <<config_toml, clock, Config_instance, Config_initialized,
                   workspace_root, init_runs, first_root>>
    /\ UNCHANGED <<RESIGHT_API_KEY, RESIGHT_API_BASE_URL, tool_vars, calls_vars>>

\* lines 242-245: the second test, then the configuration is loaded, or
\* _load_initial_config raises and the exception leaves Config()
InitLoad(t) ==
    /\ thread[t].pc = "init_locked"
    /\ IF Config_initialized
       THEN /\ Config_lock' = 0
            /\ Returned(t, workspace_root)
            /\ UNCHANGED workspace_root
       ELSE IF ~config_toml.valid
       THEN /\ Config_lock' = 0
            /\ workspace_root' = NoRoot
            /\ thread' = [thread EXCEPT ![t].pc = "raised"]
            /\ UNCHANGED first_root
       ELSE /\ workspace_root' = BaseRoot
            /\ thread' = [thread EXCEPT ![t].pc = "init_body"]
            /\ UNCHANGED <<Config_lock, first_root>>
    /\ UNCHANGED <<config_toml, clock, Config_instance, Config_initialized, init_runs>>
    /\ UNCHANGED <<RESIGHT_API_KEY, RESIGHT_API_BASE_URL, tool_vars, calls_vars>>

\* lines 248-279: the run directory is created and workspace_root
\* re-pointed to it; line 269 returns before line 279 when input_dir is not
\* a directory
InitRun(t) ==
    /\ thread[t].pc = "init_body"
    /\ workspace_root' = RunRoot(clock)
    /\ init_runs' = init_runs + 1
    /\ Config_initialized' = (config_toml.input_dir # "not_a_dir")
    /\ Config_lock' = 0
    /\ Returned(t, RunRoot(clock))
    /\ UNCHANGED <<config_toml, clock, Config_instance>>
    /\ UNCHANGED <<RESIGHT_API_KEY, RESIGHT_API_BASE_URL, tool_vars, calls_vars>>

\* datetime.now() moves on by a second
Tick ==
    /\ clock < MaxClock
    /\ clock' = clock + 1
    /\ UNCHANGED <<config_toml, Config_instance, Config_lock, Config_initialized,
                   workspace_root, thread, init_runs, first_root>>
    /\ UNCHANGED <<RESIGHT_API_KEY, RESIGHT_API_BASE_URL, tool_vars, calls_vars>>

ConfigInit ==
    /\ RESIGHT_API_KEY = None
    /\ RESIGHT_API_BASE_URL = DefaultBaseUrl
    /\ ToolsIdle
    /\ CallsIdle
    /\ \E toml \in ConfigTomls : ConfigFresh(toml)

ConfigNext ==
    \/ \E t \in Threads : ConfigCall(t)
    \/ \E t \in Threads : NewCheck(t)
    \/ \E t \in Threads : NewAcquire(t)
    \/ \E t \in Threads : NewCreate(t)
    \/ \E t \in Threads : InitCheck(t)
    \/ \E t \in Threads : InitAcquire(t)
    \/ \E t \in Threads : InitLoad(t)
    \/ \E t \in Threads : InitRun(t)
    \/ Tick

ConfigSpec == ConfigInit /\ [][ConfigNext]_vars

(***************************************************************************)
(* Observations used by the properties                                     *)
(***************************************************************************)
IdentityFields == {"propertyId", "bfe_number", "timestamp"}
CatalogSet == Range(ALL_AVAILABLE_PROCESSED_FIELDS)

FetchDone == pc = "done" /\ tool = "fetch"
GatewayDone == pc = "done" /\ tool = "gateway"
ProbeDone == pc = "done" /\ tool = "probe"

\* the sub-collection under `key` as the claim counts it: a missing bbr, a
\* missing key and null are the empty list
ListUnder(record, key) ==
    LET bbr == Get(record, "bbr", JObj(EmptyDict))
        x == Get(bbr, key, JList(<<>>))
    IN IF x.t = "list" THEN x.v ELSE <<>>

\* the sub-collection under `key` is a list or is missing
ListOrMissing(record, key) ==
    LET bbr == Get(record, "bbr", JObj(EmptyDict))
    IN bbr.t = "obj" /\ Get(bbr, key, JList(<<>>)).t \in {"list", "null"}

\* the call fetched a property record: a success status and a JSON object
\* whose bbr, when present, is an object of lists
RecordFound ==
    /\ FetchDone
    /\ Len(response) = 1
    /\ response[1].t = "http"
    /\ response[1].status_code \in 200..299
    /\ response[1].body.t = "obj"
    /\ ListOrMissing(response[1].body, "units")
    /\ ListOrMissing(response[1].body, "buildings")

TheUnits == ListUnder(response[1].body, "units")
TheBuildings == ListUnder(response[1].body, "buildings")

IsTable == result.kind = "ToolResult" /\ result.output.form = "json"
Rows == result.output.records
KeysOf(row) == [k \in 1..Len(row) |-> row[k][1]]
ValueOf(row, key) == row[CHOOSE k \in 1..Len(row) : row[k][1] = key][2]

\* any two rows agree on each identity field they carry
RowsShareIdentity ==
    \A i, j \in 1..Len(Rows) : \A f \in IdentityFields :
        f \in Range(KeysOf(Rows[i])) =>
            /\ f \in Range(KeysOf(Rows[j]))
            /\ ValueOf(Rows[i], f) = ValueOf(Rows[j], f)

(***************************************************************************)
(* Properties                                                              *)
(***************************************************************************)

\* C1: a record with m >= 1 units and n >= 1 buildings yields a table of
\* exactly m*n rows, all rows with the same propertyId, bfe_number, timestamp
C1_CrossProductRowCount ==
    (RecordFound /\ Len(TheUnits) >= 1 /\ Len(TheBuildings) >= 1) =>
        /\ IsTable
        /\ Len(Rows) = Len(TheUnits) * Len(TheBuildings)
        /\ RowsShareIdentity

\* C2: when exactly one of the units and buildings lists is empty or
\* missing, the table has as many rows as the other list has entries
C2_OneSidedRowCount ==
    (RecordFound /\ (Len(TheUnits) = 0) # (Len(TheBuildings) = 0)) =>
        /\ IsTable
        /\ Len(Rows) = Len(TheUnits) + Len(TheBuildings)

\* C3 as stated: a found property with no units and no buildings yields
\* exactly one row, carrying only the identity fields
C3_SingleIdentityRow ==
    (RecordFound /\ Len(TheUnits) = 0 /\ Len(TheBuildings) = 0) =>
        /\ IsTable
        /\ Len(Rows) = 1
        /\ Range(KeysOf(Rows[1])) = IdentityFields

\* C3 (amended): a found property with no units and no buildings yields no
\* row at all: the call succeeds with the explanatory text that names the
\* requested BFE number and the property id, and is not a failure
C3_NoDataMessage ==
    (RecordFound /\ Len(TheUnits) = 0 /\ Len(TheBuildings) = 0) =>
        /\ result.kind = "ToolResult"
        /\ result.output.form = "text"
        /\ result.output.text = "No BBR units or buildings data found"
        /\ result.output.bfe = args.bfe_number
        /\ result.output.propertyId = Get(response[1].body, "id", None)

C3_Witness ==
    /\ RecordFound
    /\ "bbr" \in DOMAIN response[1].body.v
    /\ response[1].body.v["bbr"] = JObj(EmptyDict)
    /\ "id" \in DOMAIN response[1].body.v
    /\ result.kind = "ToolResult"
    /\ result.output.form = "text"

\* the columns of the computed rows that the catalog names: the identity
\* fields and the catalog names of the keys the entries carry
UnitKeys == UNION {DOMAIN TheUnits[i].v : i \in 1..Len(TheUnits)}
BuildingKeys == UNION {DOMAIN TheBuildings[i].v : i \in 1..Len(TheBuildings)}
PresentCatalogFields ==
    IdentityFields
    \cup {rename_units[k] : k \in UnitKeys \cap DOMAIN rename_units}
    \cup {rename_buildings[k] : k \in BuildingKeys \cap DOMAIN rename_buildings}

\* column selection was reached: a record was found and it has some entry
ReachedSelection == RecordFound /\ (Len(TheUnits) > 0 \/ Len(TheBuildings) > 0)

\* the caller's list filtered to catalog members present in the rows
ValidRequested ==
    SelectSeq(args.output_fields.list, LAMBDA f : f \in PresentCatalogFields)
DefaultPresent ==
    SelectSeq(ALL_AVAILABLE_PROCESSED_FIELDS, LAMBDA f : f \in PresentCatalogFields)

\* C4: whatever names the caller asks for, every key of every returned row
\* is a member of ALL_AVAILABLE_PROCESSED_FIELDS
C4_OnlyCatalogKeys ==
    (FetchDone /\ IsTable) =>
        \A i \in 1..Len(Rows) : Range(KeysOf(Rows[i])) \subseteq CatalogSet

C4_Witness ==
    /\ FetchDone /\ IsTable /\ Len(Rows) >= 1
    /\ "status" \in Range(args.output_fields.list)
    /\ "status" \in BuildingKeys
    /\ Len(ValidRequested) >= 1

\* C5: with no output_fields, or with none of them both in the catalog and
\* present in the rows, the columns are the default catalog's members that
\* are present in the rows, in catalog order
C5_DefaultProjection ==
    (ReachedSelection /\ Len(ValidRequested) = 0) =>
        /\ IsTable
        /\ \A i \in 1..Len(Rows) : KeysOf(Rows[i]) = DefaultPresent

C5_Witness ==
    /\ ReachedSelection /\ IsTable /\ Len(Rows) >= 1
    /\ args.output_fields.list = <<"status">>
    /\ "status" \in BuildingKeys
    /\ Len(TheUnits) >= 1

\* C6: with at least one requested field in the catalog and present in the
\* rows, the columns are the caller's list filtered to such fields, in the
\* caller's order
C6_CallerProjection ==
    (ReachedSelection /\ Len(ValidRequested) >= 1) =>
        /\ IsTable
        /\ \A i \in 1..Len(Rows) : KeysOf(Rows[i]) = ValidRequested

\* C7 as stated: every returned row carries propertyId, bfe_number and
\* timestamp, whatever the caller's projection
C7_IdentityAlwaysCarried ==
    (FetchDone /\ IsTable) =>
        \A i \in 1..Len(Rows) : IdentityFields \subseteq Range(KeysOf(Rows[i]))

\* C7 (amended): every returned row carries the three identity fields when
\* the default projection applies (no output_fields, or none of them valid
\* and present); under a caller projection a row carries exactly those of
\* the three that the caller named
C7_IdentityUnlessProjectedAway ==
    (FetchDone /\ ReachedSelection /\ IsTable) =>
        \A i \in 1..Len(Rows) : \A f \in IdentityFields :
            f \in Range(KeysOf(Rows[i])) <=>
                (Len(ValidRequested) = 0 \/ f \in Range(args.output_fields.list))

C7_Witness ==
    /\ FetchDone /\ IsTable /\ Len(Rows) >= 1
    /\ args.output_fields.list = <<"bbr.units.id">>
    /\ KeysOf(Rows[1]) = <<"bbr.units.id">>

\* C8: in every returned row, bfe_number is the registry's value when the
\* record carries a non-null one, and the requested number otherwise
C8_BfeNumberSource ==
    (FetchDone /\ IsTable) =>
        \A i \in 1..Len(Rows) :
            "bfe_number" \in Range(KeysOf(Rows[i])) =>
                LET api == Get(response[1].body, "bfe_number", None)
                IN ValueOf(Rows[i], "bfe_number") =
                       (IF api.t # "null" THEN api ELSE JNum(args.bfe_number))

C8_Witness ==
    /\ FetchDone /\ IsTable /\ Len(Rows) >= 1
    /\ "bfe_number" \in Range(KeysOf(Rows[1]))
    /\ Get(response[1].body, "bfe_number", None) = JNum(0)
    /\ ValueOf(Rows[1], "bfe_number") = JNum(0)

\* C9: with the key absent or empty, neither tool ever has a request out,
\* and its call returns a failure
C9_NoRequestWithoutKey ==
    (tool \in {"fetch", "gateway"} /\ ~Truthy(RESIGHT_API_KEY)) =>
        /\ sent = <<>>
        /\ pc = "done"
        /\ result.kind = "ToolFailure"

C9_Witness ==
    /\ FetchDone
    /\ RESIGHT_API_KEY = JStr("")
    /\ result.kind = "ToolFailure"
    /\ sent = <<>>

\* C10: every call of the three public operations ends with a success
\* payload or a failure value that carries a message; no exception leaves
C10_AlwaysAValue ==
    pc = "done" =>
        \/ result.kind = "ToolResult" /\ result.output.form # "none"
        \/ result.kind = "ToolFailure" /\ result.error.text # "none"
        \/ result.kind = "dict" /\ result.output.status \in {"success", "error"}
                                /\ Len(result.output.message) >= 1

C10_Witness ==
    /\ FetchDone
    /\ Len(response) = 1
    /\ response[1].t = "http" /\ response[1].status_code = 200
    /\ response[1].body.t = "obj"
    /\ "bbr" \in DOMAIN response[1].body.v
    /\ response[1].body.v["bbr"].t = "str"
    /\ result.kind = "ToolFailure"

\* the kind of a returned failure: the message it is built from
KindOf(r) == IF r.kind = "dict" THEN r.output.message[1] ELSE r.error.text

\* the first answer of the call in progress is an HTTP answer with a status in S
FirstAnswerIn(S) ==
    /\ Len(response) >= 1
    /\ response[1].t = "http"
    /\ response[1].status_code \in S

\* what the operation in progress returns when its lookup is answered 500
\* with the same body
ReturnFor500 ==
    LET r == HttpResponse(500, response[1].body)
        t == CHOOSE x \in Times : TRUE
    IN IF tool = "fetch" THEN FetchReturn(args.bfe_number, args.output_fields, r, t)
       ELSE ProbeAfterSearch(r, t).value

\* C11 as stated: a lookup answered 401 or 403 fails with a kind of its own,
\* different from the kind of the failure for another status such as 500
C11_UnauthorizedKind ==
    (pc = "done" /\ tool \in {"fetch", "probe"} /\ FirstAnswerIn({401, 403})) =>
        KindOf(result) # KindOf(ReturnFor500)

\* C11 (amended): a lookup answered 401 or 403 fails with the same kind of
\* failure as one answered 500; the fetch tool's failure differs only in the
\* status code and body it carries
C11_SameKindForEveryStatus ==
    (pc = "done" /\ tool \in {"fetch", "probe"} /\ FirstAnswerIn({401, 403})) =>
        /\ KindOf(result) = KindOf(ReturnFor500)
        /\ tool = "fetch" =>
              /\ result.kind = "ToolFailure"
              /\ result.error.text = "Resight API HTTP error for BFE"
              /\ result.error.status_code = response[1].status_code
        /\ tool = "probe" => (result.kind = "dict" /\ result.output.status = "error")

C11_Witness ==
    /\ FetchDone
    /\ FirstAnswerIn({403})
    /\ result.kind = "ToolFailure"
    /\ result.error.status_code = 403

\* the search answer is a JSON object without a match: its data list is
\* missing or empty, or its first entry carries no id
NoMatch(body) ==
    /\ body.t = "obj"
    /\ LET data == Get(body, "data", JList(<<>>))
       IN /\ data.t = "list"
          /\ \/ Len(data.v) = 0
             \/ data.v[1].t = "obj" /\ ~Truthy(Get(data.v[1], "id", None))

\* C12: when the property search finds no matching record, the flow fails
\* with the not-found failure and never issues the valuations request
C12_NotFoundStopsFlow ==
    (tool = "probe" /\ FirstAnswerIn({200}) /\ NoMatch(response[1].body)) =>
        /\ pc = "done"
        /\ Len(sent) = 1
        /\ result.kind = "dict"
        /\ result.output.status = "error"
        /\ result.output.message = <<"Could not find property ID in response">>

\* C13: a call of either tool issues at most one request, and a failed
\* request ends the call with a failure and no further request
C13_NoRetry ==
    tool \in {"fetch", "gateway"} =>
        /\ Len(sent) <= 1
        /\ (pc = "awaiting" => Len(sent) = 1 /\ Len(response) = 0)
        /\ (pc = "done" /\ Len(response) = 1
              /\ (response[1].t = "error" \/ response[1].status_code \notin 200..299)) =>
               (result.kind = "ToolFailure" /\ Len(sent) = 1)

C13_Witness ==
    /\ GatewayDone
    /\ Len(response) = 1
    /\ response[1].t = "error"
    /\ result.kind = "ToolFailure"
    /\ Len(sent) = 1

\* C14: the gateway answers a 204 with the success marker without parsing
\* the body, and any other success status with the parsed body unmodified
C14_NoContentMarker ==
    (GatewayDone /\ FirstAnswerIn(200..299)) =>
        /\ response[1].status_code = 204 =>
              /\ result.kind = "ToolResult"
              /\ result.output.form = "marker"
              /\ result.output.status = "success"
        /\ (response[1].status_code # 204 /\ ~JsonFails(response[1])) =>
              /\ result.kind = "ToolResult"
              /\ result.output.form = "payload"
              /\ result.output.value = response[1].body

C14_Witness ==
    /\ GatewayDone
    /\ FirstAnswerIn({204})
    /\ response[1].body = EmptyBody
    /\ result.kind = "ToolResult"
    /\ result.output.form = "marker"

\* C15: for every status that is not a success status, both tools return a
\* failure whose message carries the status code and the body text
C15_FailureCarriesStatusAndBody ==
    (pc = "done" /\ tool \in {"fetch", "gateway"}
       /\ FirstAnswerIn(ErrorStatuses)) =>
        /\ result.kind = "ToolFailure"
        /\ result.error.text \in {"Resight API HTTP error for BFE", "Resight API HTTP error"}
        /\ result.error.status_code = response[1].status_code
        /\ result.error.body = response[1].body

C15_Witness ==
    /\ GatewayDone
    /\ FirstAnswerIn({302})
    /\ response[1].body = TextBody
    /\ result.kind = "ToolFailure"
    /\ result.error.status_code = 302

\* the cell of a row under `key`, as the entry's own `raw` key gives it
CellOf(entry, raw) == IF raw \in DOMAIN entry.v THEN entry.v[raw] ELSE None

\* the rows a call at another time would return agree with the returned
\* ones on everything but the timestamp
SameButTimestamp(other) ==
    /\ other.kind = "ToolResult"
    /\ other.output.form = "json"
    /\ Len(other.output.records) = Len(Rows)
    /\ \A i \in 1..Len(Rows) :
          /\ KeysOf(other.output.records[i]) = KeysOf(Rows[i])
          /\ \A k \in 1..Len(Rows[i]) :
                Rows[i][k][1] # "timestamp" => other.output.records[i][k] = Rows[i][k]

\* C16: with m >= 1 units and n >= 1 buildings, the row at index i*n+j
\* (from 0) pairs unit i with building j, and a second normalization of the
\* same record and projection gives the same rows but for the timestamp
C16_UnitsOuterBuildingsInner ==
    (RecordFound /\ Len(TheUnits) >= 1 /\ Len(TheBuildings) >= 1) =>
        /\ IsTable
        /\ Len(Rows) = Len(TheUnits) * Len(TheBuildings)
        /\ \A i \in 1..Len(TheUnits) : \A j \in 1..Len(TheBuildings) :
              LET row == Rows[(i - 1) * Len(TheBuildings) + j]
              IN /\ "bbr.units.id" \in Range(KeysOf(row)) =>
                       ValueOf(row, "bbr.units.id") = CellOf(TheUnits[i], "id")
                 /\ "bbr.buildings.id" \in Range(KeysOf(row)) =>
                       ValueOf(row, "bbr.buildings.id") = CellOf(TheBuildings[j], "id")
        /\ \A t \in Times :
              SameButTimestamp(FetchReturn(args.bfe_number, args.output_fields, response[1], t))

\* C17: a found property with no units and no buildings gives a success
\* whose output is the explanatory text naming the property id, neither a
\* JSON array nor a failure
C17_PlainTextWhenNoData ==
    (RecordFound /\ Len(TheUnits) = 0 /\ Len(TheBuildings) = 0) =>
        /\ result.kind # "ToolFailure"
        /\ result.kind = "ToolResult"
        /\ result.output.form # "json"
        /\ result.output.form = "text"
        /\ result.output.propertyId =
               (IF "id" \in DOMAIN response[1].body.v THEN response[1].body.v["id"] ELSE None)

C17_Witness ==
    /\ RecordFound
    /\ "bbr" \notin DOMAIN response[1].body.v
    /\ result.kind = "ToolResult"
    /\ result.output.form = "text"
    /\ result.output.propertyId = JStr("abc-123")

\* the record with its bbr object and the units and buildings keys filled in
\* as empty lists where they are missing
FilledRecord(record) ==
    LET bbr == IF "bbr" \in DOMAIN record.v THEN record.v["bbr"].v ELSE EmptyDict
        filled == [k \in DOMAIN bbr \cup {"units", "buildings"} |->
                      IF k \in DOMAIN bbr THEN bbr[k] ELSE JList(<<>>)]
    IN JObj([k \in DOMAIN record.v \cup {"bbr"} |->
                IF k = "bbr" THEN JObj(filled) ELSE record.v[k]])

\* the bbr object, or its units or its buildings key, is missing
SubCollectionMissing(record) ==
    \/ "bbr" \notin DOMAIN record.v
    \/ /\ record.v["bbr"].t = "obj"
       /\ {"units", "buildings"} \ DOMAIN record.v["bbr"].v # {}

\* C18: a record that lacks the bbr object, or its units or buildings key,
\* is processed as the same record with empty lists in their place; the
\* missing key makes no call fail
C18_MissingMeansEmpty ==
    (FetchDone /\ FirstAnswerIn(200..299) /\ response[1].body.t = "obj"
       /\ SubCollectionMissing(response[1].body)) =>
        \E t \in Times :
            result = FetchReturn(args.bfe_number, args.output_fields,
                                 HttpResponse(response[1].status_code,
                                              FilledRecord(response[1].body)), t)

C18_Witness ==
    /\ RecordFound
    /\ "bbr" \in DOMAIN response[1].body.v
    /\ "units" \notin DOMAIN response[1].body.v["bbr"].v
    /\ Len(TheBuildings) = 2
    /\ IsTable
    /\ Len(Rows) = 2

\* the lookup was answered with a record whose bbr value is present and is
\* not an object
BbrNotAnObject ==
    /\ FetchDone
    /\ FirstAnswerIn(200..299)
    /\ response[1].body.t = "obj"
    /\ "bbr" \in DOMAIN response[1].body.v
    /\ response[1].body.v["bbr"].t # "obj"

\* C19: a record whose bbr value is present but not an object makes the
\* fetch fail, with a failure that differs in kind from the one every
\* non-success status (401, 403, 404, 500, ...) gives
C19_ShapeFailureIsDistinct ==
    BbrNotAnObject =>
        /\ result.kind = "ToolFailure"
        /\ result.error.text = "An unexpected error occurred while fetching property data for BFE"
        /\ result.error.bfe = args.bfe_number
        /\ result.error.detail = "AttributeError"
        /\ \A st \in ErrorStatuses : \A b \in {EmptyBody, TextBody} : \A t \in Times :
              KindOf(result) # KindOf(FetchReturn(args.bfe_number, args.output_fields,
                                                  HttpResponse(st, b), t))

C19_Witness ==
    /\ BbrNotAnObject
    /\ response[1].body.v["bbr"].t = "list"
    /\ result.kind = "ToolFailure"
    /\ result.error.detail = "AttributeError"

\* the search was answered 200 with an object whose only key `w` holds a
\* list whose first entry is a match with an id
WrappedUnder(w) ==
    /\ tool = "probe"
    /\ FirstAnswerIn({200})
    /\ response[1].body.t = "obj"
    /\ DOMAIN response[1].body.v = {w}
    /\ response[1].body.v[w].t = "list"
    /\ Len(response[1].body.v[w].v) >= 1
    /\ response[1].body.v[w].v[1].t = "obj"
    /\ "id" \in DOMAIN response[1].body.v[w].v[1].v
    /\ Truthy(response[1].body.v[w].v[1].v["id"])

\* the valuations request was issued for the first match under `w`
ResolvedUnder(w) ==
    /\ Len(sent) = 2
    /\ sent[2].path = <<"properties", response[1].body.v[w].v[1].v["id"], "valuations">>

\* C20: matches wrapped under data, results or items resolve to the first
\* match's id
C20_WrapperFallback ==
    \A w \in {"data", "results", "items"} : WrappedUnder(w) => ResolvedUnder(w)

\* C20 (amended): only the data key is read; matches wrapped under results
\* or items, with data absent, end the call with the property-id-not-found
\* error and no valuations request
C20_OnlyDataKey ==
    /\ WrappedUnder("data") => ResolvedUnder("data")
    /\ \A w \in {"results", "items"} :
          WrappedUnder(w) =>
              /\ pc = "done"
              /\ Len(sent) = 1
              /\ result.kind = "dict"
              /\ result.output.status = "error"
              /\ result.output.message = <<"Could not find property ID in response">>

C20_Witness ==
    /\ WrappedUnder("items")
    /\ pc = "done"
    /\ Len(sent) = 1
    /\ result.kind = "dict"
    /\ result.output.message = <<"Could not find property ID in response">>

\* the valuations request was answered
ValuationsAnswered ==
    /\ tool = "probe"
    /\ pc = "done"
    /\ Len(response) = 2
    /\ response[2].t = "http"

\* C21: the search request is sent first and the valuations request second,
\* for the id the search resolved; a success status of the valuations
\* request returns the valuation payload as received, and every non-success
\* status returns the valuation failure carrying that status code
C21_ValuationFlow ==
    /\ (tool = "probe" /\ Len(sent) >= 1) =>
           sent[1].path = <<"properties?bfe_number=", args.bfe_number>>
    /\ (tool = "probe" /\ Len(sent) = 2) =>
           /\ Len(response) >= 1
           /\ WrappedUnder("data")
           /\ ResolvedUnder("data")
    /\ ValuationsAnswered =>
           /\ (response[2].status_code \in 200..299 /\ ~JsonFails(response[2])) =>
                  /\ result.kind = "dict"
                  /\ result.output.status = "success"
                  /\ result.output.valuation_data = response[2].body
           /\ response[2].status_code \notin 200..299 =>
                  /\ result.kind = "dict"
                  /\ result.output.status = "error"
                  /\ result.output.message =
                         <<"Failed to get valuation history", response[2].status_code>>

\* the call went past the return of line 110
PastNoBbrReturn ==
    /\ RecordFound
    /\ ~(result.kind = "ToolResult" /\ result.output.form = "text"
           /\ result.output.text = "No BBR units or buildings data found")

\* C24: once past the 'No BBR units or buildings data found' return, the
\* 'No data could be processed or selected' text is never the result, and the
\* rows of a returned table carry the caller's valid fields or, when there
\* are none, propertyId, bfe_number and timestamp
C24_SelectionNeverEmpty ==
    PastNoBbrReturn =>
        /\ ~(result.kind = "ToolResult" /\ result.output.form = "text")
        /\ IsTable \/ result.kind = "ToolFailure"
        /\ IsTable =>
              \A i \in 1..Len(Rows) :
                  /\ Len(Rows[i]) >= 1
                  /\ Len(ValidRequested) >= 1 => KeysOf(Rows[i]) = ValidRequested
                  /\ Len(ValidRequested) = 0 => IdentityFields \subseteq Range(KeysOf(Rows[i]))

C24_Witness ==
    /\ PastNoBbrReturn
    /\ Len(TheUnits) >= 1
    /\ \A i \in 1..Len(TheUnits) : DOMAIN TheUnits[i].v = {}
    /\ Len(TheBuildings) = 0
    /\ args.output_fields.given
    /\ Len(args.output_fields.list) >= 1
    /\ Len(ValidRequested) = 0
    /\ IsTable
    /\ Len(Rows) = 0

\* the value call `c` returns when it is the only call, for the same
\* arguments, key and registry answer
AloneResult(c, key, now) ==
    IF c.tool = "fetch"
    THEN IF FetchConfigured(key)
         THEN FetchReturn(c.args.bfe_number, c.args.output_fields, c.response[1], now)
         ELSE FetchNotConfigured
    ELSE IF Truthy(key) THEN GatewayReturn(c.response[1]) ELSE GatewayNotConfigured

\* C22: no step of concurrent execute calls writes the base URL or the key,
\* and a call that has returned holds the value it returns when run alone
\* with its arguments and its registry answer, up to the time stamped on it
C22_CallsDoNotInterfere ==
    [][ /\ RESIGHT_API_KEY' = RESIGHT_API_KEY
        /\ RESIGHT_API_BASE_URL' = RESIGHT_API_BASE_URL
        /\ \A i \in Calls :
              calls'[i].pc = "done" =>
                  \E now \in Times : calls'[i].result = AloneResult(calls'[i], RESIGHT_API_KEY, now)
      ]_vars

C22_Witness ==
    /\ calls[1].pc = "done" /\ calls[1].tool = "fetch" /\ calls[1].overlapped
    /\ calls[1].result.kind = "ToolResult"
    /\ calls[1].args.output_fields.given
    /\ calls[2].pc = "done" /\ calls[2].tool = "fetch"
    /\ ~calls[2].args.output_fields.given
    /\ calls[2].result.kind = "ToolFailure"

====
